---- MODULE Spec2Model ----
(***************************************************************************)
(* A model of the Keras callback AdditionalValidationSets                  *)
(* (implementations/relevant_parts_of_most_recent_version.py).             *)
(*                                                                         *)
(* The object's fields (validation_sets, record_predictions,               *)
(* record_original_history, batch_size, epoch, history) are variables.     *)
(* The framework is the environment: it constructs the callback, attaches  *)
(* a model, and calls on_train_begin / on_epoch_end; results() may be      *)
(* called at any time.  The framework calls on_epoch_end only between      *)
(* on_train_begin and the end of the training run.  A handler that raises  *)
(* leaves the fields as they were at the raise, `raised` names the         *)
(* exception, and the training run ends.                                   *)
(*                                                                         *)
(* External operations are modelled by their contract of use in the file:  *)
(*  - evaluate / evaluate_generator return one scalar per entry of         *)
(*    metrics_names (as line 113 assumes), a function of the weights of    *)
(*    the evaluated model, the validation set and the metric index;        *)
(*  - evaluate_generator(g, steps) draws `steps` batches from g;           *)
(*  - predict returns one prediction per example of its input, in the      *)
(*    model's output layout: a list of per-output arrays for a             *)
(*    multi-output model, one 2-D array (a row per example) for a          *)
(*    single-output model;                                                 *)
(*  - arrays are sequences; a 2-D array is a sequence of rows.             *)
(* `verbose` only prints and is left out.                                  *)
(***************************************************************************)
EXTENDS Integers, Sequences, FiniteSets, TLC

VARIABLES
    phase,                    \* "new" | "constructed" | "failed"
    training,                 \* TRUE between on_train_begin and the end of the run
    model,                    \* self.model: [layout, width, metrics_names]
    subclass,                 \* TRUE: prefix() and model_to_evaluate() are overridden
    validation_sets,          \* self.validation_sets
    record_predictions,       \* self.record_predictions
    record_original_history,  \* self.record_original_history
    batch_size,               \* self.batch_size
    epoch,                    \* self.epoch
    history,                  \* self.history: key -> sequence of values
    gen_pos,                  \* position of each validation set's generator
    calls,                    \* external calls made by the last handler, in order
    last,                     \* the last operation and its arguments
    raised,                   \* exception raised by the last operation, or "none"
    ret                       \* value returned by the last results() call

vars == <<phase, training, model, subclass, validation_sets, record_predictions,
          record_original_history, batch_size, epoch, history, gen_pos,
          calls, last, raised, ret>>

config == <<model, subclass, validation_sets, record_predictions,
            record_original_history, batch_size>>

----------------------------------------------------------------------------
(* Bounds *)

MaxEpochs == 2

Weights == 1 .. 2

EpochArgs == 0 .. 1

----------------------------------------------------------------------------
(* Python values *)

None == [none |-> TRUE]

nan == [nan |-> TRUE]

Float(x) == [float |-> x]

EmptyDict == <<>>

Min(a, b) == IF a <= b THEN a ELSE b

RECURSIVE MinLen(_)
MinLen(seqs) ==
    IF Len(seqs) = 1 THEN Len(seqs[1])
    ELSE Min(Len(seqs[1]), MinLen(Tail(seqs)))

\* list(zip(*seqs))
Zip(seqs) ==
    IF Len(seqs) = 0 THEN <<>>
    ELSE [k \in 1 .. MinLen(seqs) |-> [j \in 1 .. Len(seqs) |-> seqs[j][k]]]

RECURSIVE Concat(_)
Concat(seqs) ==
    IF Len(seqs) = 0 THEN <<>> ELSE seqs[1] \o Concat(Tail(seqs))

\* a bug: d[k] = [v]
SetDefaultAppend_Overwrite(d, k, v) ==
    IF k \in DOMAIN d THEN [d EXCEPT ![k] = <<v>>]
    ELSE d @@ (k :> <<v>>)

\* d.setdefault(k, []).append(v)
SetDefaultAppend(d, k, v) ==
    IF k \in DOMAIN d THEN [d EXCEPT ![k] = Append(@, v)]
    ELSE d @@ (k :> <<v>>)

----------------------------------------------------------------------------
(* The external model *)

\* target value of output (or output column) o for example e
T(e, o) == 10 * e + o

\* prediction of a model with weights w for example e, output o
P(w, e, o) == 100 * w + 10 * e + o

\* the examples of an input, in order
Examples(m, x) ==
    IF m.layout = "multi" THEN x[1]
    ELSE [k \in 1 .. Len(x) |-> x[k][1]]

\* model.predict(x)
Predict(m, w, x) ==
    LET ex == Examples(m, x) IN
    IF m.layout = "multi"
    THEN [o \in 1 .. m.width |-> [k \in 1 .. Len(ex) |-> P(w, ex[k], o)]]
    ELSE [k \in 1 .. Len(ex) |-> [o \in 1 .. m.width |-> P(w, ex[k], o)]]

\* model.evaluate(...) / model.evaluate_generator(...) on validation set i
Evaluate(m, w, i) ==
    [j \in 1 .. Len(m.metrics_names) |-> Float(100 * w + 10 * i + j)]

----------------------------------------------------------------------------
(* Models and constructor arguments the environment may choose *)

Inputs(m, ex) ==
    IF m.layout = "multi" THEN << ex >>
    ELSE [k \in 1 .. Len(ex) |-> << ex[k] >>]

Targets(m, ex) ==
    IF m.layout = "multi"
    THEN [o \in 1 .. m.width |-> [k \in 1 .. Len(ex) |-> T(ex[k], o)]]
    ELSE [k \in 1 .. Len(ex) |-> [o \in 1 .. m.width |-> T(ex[k], o)]]

Batch(m, ex) == << Inputs(m, ex), Targets(m, ex) >>

Generator(batches) == [batches |-> batches]

\* an array (or list of arrays) as a Python object, so that it compares with None
Array(a) == [array |-> a]

Multi2 == [layout |-> "multi", width |-> 2, metrics_names |-> <<"loss", "acc">>]

Multi1 == [layout |-> "multi", width |-> 2, metrics_names |-> <<"loss">>]

Single == [layout |-> "single", width |-> 1, metrics_names |-> <<"loss", "acc">>]

Scenarios == <<
    \* 1: no additional validation sets
    [model |-> Multi2, batch_size |-> "None", validation_sets |-> << >>],
    \* 2: one 3-tuple
    [model |-> Multi2, batch_size |-> "None", validation_sets |-> <<
        << Array(Inputs(Multi2, <<1, 2>>)), Array(Targets(Multi2, <<1, 2>>)), "val" >> >>],
    \* 3: a 4-tuple, then a generator of two batches evaluated one step at a time
    [model |-> Multi2, batch_size |-> "32", validation_sets |-> <<
        << Array(Inputs(Multi2, <<1, 2>>)), Array(Targets(Multi2, <<1, 2>>)), Array(<<1, 1>>), "a" >>,
        << << Generator(<< Batch(Multi2, <<3>>), Batch(Multi2, <<4, 5>>) >>), 1 >>, "b" >> >>],
    \* 4: a 5-tuple among the validation sets
    [model |-> Multi2, batch_size |-> "None", validation_sets |-> <<
        << Array(Inputs(Multi2, <<1>>)), Array(Targets(Multi2, <<1>>)), "val" >>,
        << Array(Inputs(Multi2, <<1>>)), Array(Targets(Multi2, <<1>>)), Array(<<1>>), "x", "y" >> >>],
    \* 5: a 1-tuple
    [model |-> Multi1, batch_size |-> "None", validation_sets |-> << << "val" >> >>],
    \* 6: targets for one example fewer than the data holds, then a sound set
    [model |-> Multi1, batch_size |-> "None", validation_sets |-> <<
        << Array(Inputs(Multi1, <<1, 2>>)), Array(Targets(Multi1, <<1>>)), "bad" >>,
        << Array(Inputs(Multi1, <<3>>)), Array(Targets(Multi1, <<3>>)), "ok" >> >>],
    \* 7: two validation sets of the same name, which is also Keras's own prefix
    [model |-> Multi1, batch_size |-> "32", validation_sets |-> <<
        << Array(Inputs(Multi1, <<1>>)), Array(Targets(Multi1, <<1>>)), "val" >>,
        << Array(Inputs(Multi1, <<2>>)), Array(Targets(Multi1, <<2>>)), Array(<<1>>), "val" >> >>],
    \* 8: a generator of two batches evaluated two steps at a time
    [model |-> Multi1, batch_size |-> "None", validation_sets |-> <<
        << << Generator(<< Batch(Multi1, <<1>>), Batch(Multi1, <<2, 3>>) >>), 2 >>, "gen" >> >>],
    \* 9: a 2-tuple without a generator
    [model |-> Multi1, batch_size |-> "None", validation_sets |-> <<
        << << None, None >>, "tensor" >> >>],
    \* 10: a single-output model: a 3-tuple and a generator
    [model |-> Single, batch_size |-> "32", validation_sets |-> <<
        << Array(Inputs(Single, <<1, 2>>)), Array(Targets(Single, <<1, 2>>)), "val" >>,
        << << Generator(<< Batch(Single, <<3, 4>>) >>), 1 >>, "gen" >> >>]
>>

Logs(is_none, items) == [is_none |-> is_none, items |-> items]

\* the logs dictionaries the framework passes, for a model with weights w
LogsChoices(w) == {
    Logs(TRUE, EmptyDict),
    Logs(FALSE, EmptyDict),
    Logs(FALSE, ("loss" :> Float(w)) @@ ("val_loss" :> Float(w + 2))) }

----------------------------------------------------------------------------
(* State after the caller has chosen the constructor's arguments *)

Init ==
    /\ phase = "new"
    /\ training = FALSE
    /\ \E c \in DOMAIN Scenarios :
        /\ model = Scenarios[c].model
        /\ validation_sets = Scenarios[c].validation_sets
        /\ batch_size = Scenarios[c].batch_size
    /\ subclass \in BOOLEAN
    /\ record_predictions \in BOOLEAN
    /\ record_original_history \in BOOLEAN
    /\ epoch = <<>>
    /\ history = EmptyDict
    /\ gen_pos = [i \in 1 .. Len(validation_sets) |-> 0]
    /\ calls = <<>>
    /\ last = [op |-> "none"]
    /\ raised = "none"
    /\ ret = [returned |-> "nothing"]

----------------------------------------------------------------------------
(* Extension points *)

\* prefix(): '' unless a subclass overrides it
prefix == IF subclass THEN "swa_" ELSE ""

\* model_to_evaluate(): self.model, or whatever a subclass returns
model_to_evaluate == IF subclass THEN {"model", "None"} ELSE {"model"}

----------------------------------------------------------------------------
(* __init__ *)

\* a bug: a 5-tuple passes the check
ValidArity_UpTo5(validation_set) == Len(validation_set) \in {2, 3, 4, 5}

ValidArity(validation_set) == Len(validation_set) \in {2, 3, 4}

Construct ==
    /\ phase = "new"
    /\ IF \E i \in 1 .. Len(validation_sets) : ~ValidArity(validation_sets[i])
       THEN /\ phase' = "failed"
            /\ raised' = "ValueError"
       ELSE /\ phase' = "constructed"
            /\ raised' = "none"
    /\ epoch' = <<>>
    /\ history' = EmptyDict
    /\ last' = [op |-> "__init__"]
    /\ UNCHANGED <<training, config, gen_pos, calls, ret>>

----------------------------------------------------------------------------
(* on_train_begin *)

on_train_begin ==
    /\ phase = "constructed"
    /\ training' = TRUE
    /\ epoch' = <<>>
    /\ history' = EmptyDict
    /\ calls' = <<>>
    /\ last' = [op |-> "on_train_begin"]
    /\ raised' = "none"
    /\ ret' = [returned |-> "nothing"]
    /\ UNCHANGED <<phase, config, gen_pos>>

----------------------------------------------------------------------------
(* on_epoch_end *)

\* a bug: history[k] = [v]
RecordLogs_Overwrite(h, logs) ==
    LET items == IF logs.is_none THEN EmptyDict ELSE logs.items IN
    [k \in DOMAIN h \cup DOMAIN items |->
        IF k \in DOMAIN items THEN << items[k] >> ELSE h[k]]

\* lines 45-47: for k, v in logs.items(): history.setdefault(k, []).append(v)
RecordLogs(h, logs) ==
    LET items == IF logs.is_none THEN EmptyDict ELSE logs.items IN
    [k \in DOMAIN h \cup DOMAIN items |->
        IF k \in DOMAIN items
        THEN (IF k \in DOMAIN h THEN h[k] ELSE <<>>) \o << items[k] >>
        ELSE h[k]]

\* lines 92-97: one entry per index of the batch's first array, batch by batch
Reformat(batches) ==
    Concat([k \in 1 .. Len(batches) |->
        [batch_idx \in 1 .. Len(batches[k][1]) |->
            [j \in 1 .. Len(batches[k]) |-> batches[k][j][batch_idx]]]])

\* the index, among the generator's batches, of the p-th batch drawn from it
Drawn(generator, p) == (p % Len(generator.batches)) + 1

\* a bug: the prefix is left out of the metric keys
MetricKey_NoPrefix(name, i) == name \o "_" \o model.metrics_names[i]

MetricKey(name, i) == prefix \o name \o "_" \o model.metrics_names[i]

PredictionsKey(name) == prefix \o name \o "_predictions"

\* lines 125-127
RECURSIVE RecordResults(_, _, _, _)
RecordResults(h, name, results, i) ==
    IF i > Len(results) THEN h
    ELSE RecordResults(SetDefaultAppend(h, MetricKey(name, i), results[i]),
                       name, results, i + 1)

\* lines 120-127
Record(st, name, predictions, results) ==
    LET h1 == IF record_predictions
              THEN SetDefaultAppend(st.history, PredictionsKey(name), predictions)
              ELSE st.history
    IN [st EXCEPT !.history = RecordResults(h1, name, results, 1)]

\* lines 72-99: a generator
EvaluateGenerator(st, i, w, generator, steps, name) ==
    LET pos == st.gen_pos[i]
        scored == [k \in 1 .. steps |-> Drawn(generator, pos + k - 1)]
        results == Evaluate(model, w, i)
        c1 == Append(st.calls, [op |-> "evaluate_generator", set |-> i,
                                generator |-> generator, steps |-> steps, drawn |-> scored,
                                returned |-> results])
    IN IF ~record_predictions
       THEN Record([st EXCEPT !.calls = c1,
                              !.gen_pos[i] = (pos + steps) % Len(generator.batches)],
                   name, None, results)
       ELSE
         LET drawn == [k \in 1 .. steps |-> Drawn(generator, pos + steps + k - 1)]
             xs(k) == generator.batches[drawn[k]][1]
             ys(k) == generator.batches[drawn[k]][2]
             y_pred == [k \in 1 .. steps |-> Predict(model, w, xs(k))]
             y_true == [k \in 1 .. steps |-> ys(k)]
             predictions == [y_pred |-> Reformat(y_pred), y_true |-> Reformat(y_true)]
             c2 == c1 \o [k \in 1 .. steps |->
                            [op |-> "predict", set |-> i, x |-> xs(k),
                             batch_size |-> Len(xs(k)[1]), drawn |-> drawn[k]]]
             st2 == [st EXCEPT !.calls = c2,
                               !.gen_pos[i] = (pos + 2 * steps) % Len(generator.batches)]
         IN IF Len(predictions.y_true) = Len(predictions.y_pred)
            THEN Record(st2, name, predictions, results)
            ELSE [st2 EXCEPT !.raised = "AssertionError"]

\* lines 100-111: arrays
EvaluateArrays(st, i, w, validation_data, validation_targets, sample_weights, name) ==
    LET results == Evaluate(model, w, i)
        c1 == Append(st.calls, [op |-> "evaluate", set |-> i, x |-> validation_data,
                                y |-> validation_targets,
                                sample_weight |-> sample_weights,
                                batch_size |-> batch_size,
                                returned |-> results])
        c2 == Append(c1, [op |-> "predict", set |-> i, x |-> validation_data])
    IN IF ~record_predictions
       THEN Record([st EXCEPT !.calls = c1], name, None, results)
       ELSE IF validation_data = None
       THEN \* no arrays: should predict(None) return, zip(*None) raises TypeError
            [st EXCEPT !.calls = c2, !.raised = "TypeError"]
       ELSE
         LET predictions == [y_pred |-> Zip(Predict(model, w, validation_data.array)),
                             y_true |-> Zip(validation_targets.array)]
         IN IF Len(predictions.y_true) = Len(predictions.y_pred)
            THEN Record([st EXCEPT !.calls = c2], name, predictions, results)
            ELSE [st EXCEPT !.calls = c2, !.raised = "AssertionError"]

\* a bug: zeros instead of not-a-number
EvaluateNothing_Zero(st, name) ==
    Record(st, name, [y_pred |-> <<>>, y_true |-> <<>>],
           [j \in 1 .. Len(model.metrics_names) |-> Float(0)])

\* lines 112-118: no model to evaluate
EvaluateNothing(st, name) ==
    Record(st, name, [y_pred |-> <<>>, y_true |-> <<>>],
           [j \in 1 .. Len(model.metrics_names) |-> nan])

\* lines 56-127: the body of the loop, for validation set i
EvaluateSet(st, i, w, target) ==
    LET validation_set == validation_sets[i]
        n == Len(validation_set)
    IN IF n = 2
       THEN LET validation_generator == validation_set[1][1]
                validation_steps == validation_set[1][2]
                name == validation_set[2]
            IN IF target = "None" THEN EvaluateNothing(st, name)
               ELSE IF validation_generator # None
               THEN EvaluateGenerator(st, i, w, validation_generator,
                                      validation_steps, name)
               ELSE EvaluateArrays(st, i, w, None, None, None, name)
       ELSE IF n = 3
       THEN IF target = "None" THEN EvaluateNothing(st, validation_set[3])
            ELSE EvaluateArrays(st, i, w, validation_set[1], validation_set[2],
                                None, validation_set[3])
       ELSE IF n = 4
       THEN IF target = "None" THEN EvaluateNothing(st, validation_set[4])
            ELSE EvaluateArrays(st, i, w, validation_set[1], validation_set[2],
                                validation_set[3], validation_set[4])
       ELSE [st EXCEPT !.raised = "ValueError"]

\* a bug: the loop stops one validation set early
RECURSIVE EvaluateSets_StopEarly(_, _, _, _)
EvaluateSets_StopEarly(st, i, w, target) ==
    IF i >= Len(validation_sets) \/ st.raised # "none" THEN st
    ELSE EvaluateSets_StopEarly(EvaluateSet(st, i, w, target), i + 1, w, target)

\* line 55: the loop; an exception ends it
RECURSIVE EvaluateSets(_, _, _, _)
EvaluateSets(st, i, w, target) ==
    IF i > Len(validation_sets) \/ st.raised # "none" THEN st
    ELSE EvaluateSets(EvaluateSet(st, i, w, target), i + 1, w, target)

\* a bug: record_original_history is ignored
EpochEnd_AlwaysLogs(e, logs, w, target) ==
    LET h1 == RecordLogs(history, logs)
        st0 == [history |-> h1, gen_pos |-> gen_pos, calls |-> <<>>, raised |-> "none"]
    IN IF Len(validation_sets) = 0 THEN st0
       ELSE EvaluateSets(
                [st0 EXCEPT !.calls = << [op |-> "model_to_evaluate",
                                          returned |-> target] >>],
                1, w, target)

\* lines 40-127
EpochEnd(e, logs, w, target) ==
    LET h1 == IF record_original_history THEN RecordLogs(history, logs) ELSE history
        st0 == [history |-> h1, gen_pos |-> gen_pos, calls |-> <<>>, raised |-> "none"]
    IN IF Len(validation_sets) = 0 THEN st0
       ELSE EvaluateSets(
                [st0 EXCEPT !.calls = << [op |-> "model_to_evaluate",
                                          returned |-> target] >>],
                1, w, target)

on_epoch_end ==
    /\ phase = "constructed"
    /\ training
    /\ Len(epoch) < MaxEpochs
    /\ \E e \in EpochArgs, w \in Weights, target \in model_to_evaluate :
       \E logs \in LogsChoices(w) :
        LET st == EpochEnd(e, logs, w, target) IN
        /\ epoch' = Append(epoch, e)
        /\ history' = st.history
        /\ gen_pos' = st.gen_pos
        /\ calls' = st.calls
        /\ raised' = st.raised
        /\ training' = (st.raised = "none")
        /\ last' = [op |-> "on_epoch_end", epoch |-> e, logs |-> logs,
                    w |-> w, target |-> target]
    /\ ret' = [returned |-> "nothing"]
    /\ UNCHANGED <<phase, config>>

----------------------------------------------------------------------------
(* results *)

\* a bug: the first value of each key instead of the last
Results_First(h) ==
    IF h = EmptyDict THEN [returned |-> "None"]
    ELSE [returned |-> "dict", rs |-> [key \in DOMAIN h |-> h[key][1]]]

\* lines 152-158
Results(h) ==
    IF h = EmptyDict THEN [returned |-> "None"]
    ELSE [returned |-> "dict", rs |-> [key \in DOMAIN h |-> h[key][Len(h[key])]]]

results ==
    /\ phase = "constructed"
    /\ ret' = Results(history)
    /\ last' = [op |-> "results"]
    /\ UNCHANGED <<phase, training, config, epoch, history, gen_pos, calls, raised>>

----------------------------------------------------------------------------

Next ==
    \/ Construct
    \/ on_train_begin
    \/ on_epoch_end
    \/ results

Spec == Init /\ [][Next]_vars

----------------------------------------------------------------------------
(* Vocabulary of the properties *)

EpochEnded == last.op = "on_epoch_end"

EpochEnds == last'.op = "on_epoch_end"

Arity(i) == Len(validation_sets[i])

NameOf(i) == validation_sets[i][Arity(i)]

Sets == 1 .. Len(validation_sets)

Last(s) == s[Len(s)]

IsPrefix(s, t) == Len(s) <= Len(t) /\ \A k \in 1 .. Len(s) : s[k] = t[k]

\* the sequence under key k before the step (empty when k is new)
Before(k) == IF k \in DOMAIN history THEN history[k] ELSE <<>>

\* what the step appended under key k
Appended(k) ==
    IF k \in DOMAIN history'
    THEN SubSeq(history'[k], Len(Before(k)) + 1, Len(history'[k]))
    ELSE <<>>

ItemsOf(logs) == IF logs.is_none THEN EmptyDict ELSE logs.items

----------------------------------------------------------------------------
(* C4: construction raises ValueError exactly when some validation set has *)
(* a length other than 2, 3 or 4, and so on_epoch_end of a constructed     *)
(* callback never reaches its own ValueError branch.                       *)

C4_ArityCheckedAtConstruction ==
    /\ phase = "failed" =>
        /\ raised = "ValueError"
        /\ \E i \in Sets : Arity(i) \notin {2, 3, 4}
    /\ phase = "constructed" => \A i \in Sets : Arity(i) \in {2, 3, 4}
    /\ EpochEnded => raised # "ValueError"

C4_Witness ==
    /\ phase = "failed"
    /\ raised = "ValueError"
    /\ Len(validation_sets) = 2
    /\ Arity(1) = 3

C4_WitnessEpoch ==
    /\ EpochEnded
    /\ \E i \in Sets : Arity(i) = 4
    /\ \E i \in Sets : Arity(i) = 2

----------------------------------------------------------------------------
(* C5: results() returns None when history is empty, and otherwise a       *)
(* mapping with exactly the keys of history, each mapped to the last       *)
(* element of its sequence; results() changes neither history nor epoch.   *)

C5_ResultsStep ==
    last'.op = "results" =>
        /\ history' = history
        /\ epoch' = epoch
        /\ IF DOMAIN history = {}
           THEN ret'.returned = "None"
           ELSE /\ ret'.returned = "dict"
                /\ DOMAIN ret'.rs = DOMAIN history
                /\ \A k \in DOMAIN history :
                    ret'.rs[k] = history[k][Len(history[k])]

----------------------------------------------------------------------------
(* C9: on_train_begin empties history and epoch whatever they held, so     *)
(* that results() returns None; an on_epoch_end removes no key and changes *)
(* no recorded value (each key's sequence before is a prefix of its        *)
(* sequence after) and appends its epoch argument to epoch.                *)

C9_Step ==
    /\ last'.op = "on_train_begin" =>
        /\ history' = EmptyDict
        /\ epoch' = <<>>
        /\ Results(history').returned = "None"
    /\ EpochEnds =>
        /\ DOMAIN history \subseteq DOMAIN history'
        /\ \A k \in DOMAIN history : IsPrefix(history[k], history'[k])
        /\ epoch' = Append(epoch, last'.epoch)

C9_AppendOnlyAndReset == [][C9_Step]_vars

C9_Witness ==
    /\ EpochEnded
    /\ Len(epoch) = 2
    /\ epoch[1] # epoch[2]
    /\ \E k \in DOMAIN history : Len(history[k]) = 2

----------------------------------------------------------------------------
(* Keys an on_epoch_end call produces, as the claims name them *)

Metrics == 1 .. Len(model.metrics_names)

ClaimedMetricKey(i, j) == prefix \o NameOf(i) \o "_" \o model.metrics_names[j]

ClaimedPredictionsKey(i) == prefix \o NameOf(i) \o "_predictions"

ClaimedKeys(logs) ==
    {ClaimedMetricKey(i, j) : i \in Sets, j \in Metrics}
    \cup (IF record_predictions THEN {ClaimedPredictionsKey(i) : i \in Sets} ELSE {})
    \cup (IF record_original_history THEN DOMAIN ItemsOf(logs) ELSE {})

\* how many times a call given `logs` produces key k
Produced(k, logs) ==
    Cardinality({ij \in Sets \X Metrics : ClaimedMetricKey(ij[1], ij[2]) = k})
    + (IF record_predictions
       THEN Cardinality({i \in Sets : ClaimedPredictionsKey(i) = k}) ELSE 0)
    + (IF record_original_history /\ k \in DOMAIN ItemsOf(logs) THEN 1 ELSE 0)

Range(s) == {s[k] : k \in 1 .. Len(s)}

IsBundle(v) == "y_pred" \in DOMAIN v

\* the validation set at which the step raised
Failing == Last(calls').set

\* the validation sets the step finished recording
Recorded == {i \in Sets : raised' = "none" \/ i < Failing}

EvaluationCalls(cs) ==
    SelectSeq(cs, LAMBDA c : c.op \in {"evaluate", "evaluate_generator"})

PredictCalls(cs, i) ==
    SelectSeq(cs, LAMBDA c : c.op = "predict" /\ c.set = i)

----------------------------------------------------------------------------
(* C1 (as stated): every key of history holds exactly len(self.epoch)      *)
(* values, whatever the names, the prefix and the logs.                    *)

C1_OneValuePerKeyPerEpoch ==
    phase = "constructed" =>
        \A k \in DOMAIN history : Len(history[k]) = Len(epoch)

(* C1 (amended): an on_epoch_end call that returns normally appends to     *)
(* every key one value for each time the call produces that key (as a key  *)
(* of logs, as a predictions key, as a metric key) and nothing to any      *)
(* other key; when record_original_history is false and no two validation  *)
(* sets produce the same key, every key then holds len(self.epoch) values. *)

C1_Step ==
    EpochEnds /\ raised' = "none" =>
        /\ \A k \in DOMAIN history' :
            Len(history'[k]) = Len(Before(k)) + Produced(k, last'.logs)
        /\ (~record_original_history /\ \A k \in DOMAIN history' : Produced(k, last'.logs) = 1)
            => \A k \in DOMAIN history' : Len(history'[k]) = Len(epoch')

C1_OneValuePerProducedKey == [][C1_Step]_vars

C1_Witness ==
    /\ EpochEnded
    /\ raised = "none"
    /\ Len(epoch) = 2
    /\ "val_loss" \in DOMAIN history
    /\ Len(history["val_loss"]) > Len(epoch)

----------------------------------------------------------------------------
(* C2 (as stated): for every validation set N and every index i of its     *)
(* evaluation results, on_epoch_end appends result i under exactly the key *)
(* prefix() + N + '_' + metrics_names[i], appends the prediction bundle    *)
(* under exactly prefix() + N + '_predictions' when record_predictions is  *)
(* true, and writes no other key than these and the keys of logs.          *)

C2_Keys(sets) ==
    /\ \A k \in DOMAIN history' :
        Appended(k) # <<>> => k \in ClaimedKeys(last'.logs)
    /\ \A n \in 1 .. Len(EvaluationCalls(calls')) :
        LET c == EvaluationCalls(calls')[n] IN
        c.set \in sets =>
            \A j \in 1 .. Len(c.returned) : \A k \in DOMAIN history' :
                c.returned[j] \in Range(Appended(k)) <=> k = ClaimedMetricKey(c.set, j)
    /\ record_predictions =>
        /\ \A i \in sets : \E v \in Range(Appended(ClaimedPredictionsKey(i))) : IsBundle(v)
        /\ \A k \in DOMAIN history' :
            (\E v \in Range(Appended(k)) : IsBundle(v))
                => \E i \in Sets : k = ClaimedPredictionsKey(i)

C2_StepAsStated == EpochEnds => C2_Keys(Sets)

C2_Step == EpochEnds => C2_Keys(Recorded)

----------------------------------------------------------------------------
(* C3: when model_to_evaluate() returns None, on_epoch_end does not raise, *)
(* calls none of evaluate, evaluate_generator and predict, appends         *)
(* not-a-number under every metric key of every validation set, and, when  *)
(* record_predictions is true, appends an empty bundle for every set.      *)

C3_Step ==
    EpochEnds /\ last'.target = "None" =>
        /\ raised' = "none"
        /\ \A n \in 1 .. Len(calls') :
            calls'[n].op \notin {"evaluate", "evaluate_generator", "predict"}
        /\ gen_pos' = gen_pos
        /\ \A i \in Sets, j \in Metrics :
            LET a == Appended(ClaimedMetricKey(i, j))
                m == Cardinality({ij \in Sets \X Metrics :
                        ClaimedMetricKey(ij[1], ij[2]) = ClaimedMetricKey(i, j)})
            IN /\ Len(a) >= m
               /\ \A n \in 1 .. Len(a) : n > Len(a) - m => a[n] = nan
        /\ record_predictions =>
            \A i \in Sets :
                LET a == Appended(ClaimedPredictionsKey(i))
                IN /\ Len(a) = Cardinality({i2 \in Sets :
                                ClaimedPredictionsKey(i2) = ClaimedPredictionsKey(i)})
                   /\ \A n \in 1 .. Len(a) : a[n] = [y_pred |-> <<>>, y_true |-> <<>>]

C3_NoModelRecordsNan == [][C3_Step]_vars

C3_Witness ==
    /\ EpochEnded
    /\ last.target = "None"
    /\ record_predictions
    /\ Len(validation_sets) = 2
    /\ Arity(2) = 2
    /\ Len(epoch) = 2

----------------------------------------------------------------------------
(* C8: on_epoch_end appends each (k, v) of logs under the key k exactly    *)
(* when record_original_history is true, and writes no key of logs when it *)
(* is false or logs is None or empty; with no validation sets it does      *)
(* nothing else than that and appending the epoch number, and does not     *)
(* call model_to_evaluate.                                                 *)

C8_Step ==
    EpochEnds =>
        LET items == ItemsOf(last'.logs)
            fromSets == ClaimedKeys([is_none |-> TRUE, items |-> EmptyDict])
        IN
        /\ \A k \in DOMAIN items \ fromSets :
            IF record_original_history
            THEN k \in DOMAIN history' /\ history'[k] = Append(Before(k), items[k])
            ELSE /\ k \in DOMAIN history' <=> k \in DOMAIN history
                 /\ k \in DOMAIN history => history'[k] = history[k]
        /\ \A k \in DOMAIN items \cap fromSets :
            record_original_history =>
                /\ k \in DOMAIN history'
                /\ Len(history'[k]) > Len(Before(k))
                /\ history'[k][Len(Before(k)) + 1] = items[k]
        /\ Len(validation_sets) = 0 =>
            /\ DOMAIN history' =
                DOMAIN history \cup (IF record_original_history THEN DOMAIN items ELSE {})
            /\ \A k \in DOMAIN history \ DOMAIN items : history'[k] = history[k]
            /\ ~record_original_history => history' = history
            /\ epoch' = Append(epoch, last'.epoch)
            /\ calls' = <<>>
            /\ raised' = "none"
            /\ gen_pos' = gen_pos

C8_LogsRecordedWhenAsked == [][C8_Step]_vars

C8_Witness ==
    /\ EpochEnded
    /\ Len(validation_sets) = 0
    /\ record_original_history
    /\ Len(epoch) = 2
    /\ "val_loss" \in DOMAIN history
    /\ Len(history["val_loss"]) < Len(epoch)

----------------------------------------------------------------------------
(* C7 (as stated): on each on_epoch_end with a model to evaluate, every    *)
(* validation set is evaluated exactly once, in the order of               *)
(* validation_sets: evaluate_generator(generator, steps) for a 2-tuple     *)
(* with a generator, evaluate(x, y, sample_weight, batch_size) for a       *)
(* 3-tuple (sample_weight None) or a 4-tuple; predict is called only when  *)
(* record_predictions is true.                                             *)

\* the n-th evaluation call is the one the claim prescribes for set n
Prescribed(c, n) ==
    /\ c.set = n
    /\ Arity(n) = 2 =>
        IF validation_sets[n][1][1] # None
        THEN /\ c.op = "evaluate_generator"
             /\ c.generator = validation_sets[n][1][1]
             /\ c.steps = validation_sets[n][1][2]
        ELSE c.op = "evaluate"
    /\ Arity(n) = 3 =>
        /\ c.op = "evaluate"
        /\ c.x = validation_sets[n][1]
        /\ c.y = validation_sets[n][2]
        /\ c.sample_weight = None
        /\ c.batch_size = batch_size
    /\ Arity(n) = 4 =>
        /\ c.op = "evaluate"
        /\ c.x = validation_sets[n][1]
        /\ c.y = validation_sets[n][2]
        /\ c.sample_weight = validation_sets[n][3]
        /\ c.batch_size = batch_size

EvaluatedInOrder(upTo) ==
    LET ev == EvaluationCalls(calls) IN
    /\ Len(ev) = upTo
    /\ \A n \in 1 .. upTo : Prescribed(ev[n], n)

PredictOnlyWhenRecording ==
    (\E n \in 1 .. Len(calls) : calls[n].op = "predict") => record_predictions

C7_EverySetEvaluatedOnce ==
    EpochEnded /\ last.target = "model" =>
        /\ EvaluatedInOrder(Len(validation_sets))
        /\ PredictOnlyWhenRecording

(* C7 (amended): the same on each on_epoch_end that returns normally; an   *)
(* on_epoch_end that raises has evaluated, once each and in order, the     *)
(* validation sets up to the one at which it raised, and none after it.    *)

C7_SetsEvaluatedUntilRaise ==
    EpochEnded /\ last.target = "model" =>
        /\ raised = "none" => EvaluatedInOrder(Len(validation_sets))
        /\ raised # "none" => EvaluatedInOrder(Last(calls).set)
        /\ PredictOnlyWhenRecording

C7_Witness ==
    /\ EpochEnded
    /\ last.target = "model"
    /\ raised = "none"
    /\ record_predictions
    /\ batch_size = "32"
    /\ Len(validation_sets) = 2
    /\ Arity(1) = 4
    /\ Arity(2) = 2
    /\ Len(epoch) = 2

----------------------------------------------------------------------------
(* C6: every prediction bundle stored in history has y_pred and y_true of  *)
(* equal length, entry k of each belonging to the k-th example predicted   *)
(* (batch by batch, then by index within the batch, for a generator); if   *)
(* the numbers of predictions and targets differ, on_epoch_end raises an   *)
(* assertion error and appends no bundle for that validation set.          *)

\* the examples set i was predicted on by the step, in order
ExamplesPredicted(i) ==
    IF Arity(i) = 2
    THEN Concat([n \in 1 .. Len(PredictCalls(calls', i)) |->
                    Examples(model, PredictCalls(calls', i)[n].x)])
    ELSE Examples(model, validation_sets[i][1].array)

\* the bundle aligned by example: entry k holds every output of example k
AlignedBundle(i) ==
    LET ex == ExamplesPredicted(i) IN
    [y_pred |-> [k \in 1 .. Len(ex) |->
                    [o \in 1 .. model.width |-> P(last'.w, ex[k], o)]],
     y_true |-> [k \in 1 .. Len(ex) |->
                    [o \in 1 .. model.width |-> T(ex[k], o)]]]

\* earlier validation sets whose bundles go under the same key as set i's
SameKeyBefore(i) ==
    {i2 \in Sets : i2 < i /\ ClaimedPredictionsKey(i2) = ClaimedPredictionsKey(i)}

C6_Step ==
    EpochEnds /\ record_predictions /\ last'.target = "model" =>
        /\ \A i \in Recorded :
            LET a == Appended(ClaimedPredictionsKey(i))
                b == a[Cardinality(SameKeyBefore(i)) + 1]
            IN /\ Len(b.y_pred) = Len(b.y_true)
               /\ b = AlignedBundle(i)
        /\ raised' = "AssertionError" =>
            Len(Appended(ClaimedPredictionsKey(Failing)))
                = Cardinality(SameKeyBefore(Failing))

C6_BundlesAlignedByExample == [][C6_Step]_vars

\* the same restricted to models whose predict returns a list of outputs
C6_StepListOfOutputs == model.layout = "multi" => C6_Step

C6_AlignedForListOfOutputs == [][C6_StepListOfOutputs]_vars

----------------------------------------------------------------------------
(* C10: for a generator with record_predictions true, the predictions      *)
(* recorded in an epoch are computed on the batches that                   *)
(* evaluate_generator scored in that epoch.                                *)

C10_PredictsOnScoredBatches ==
    EpochEnded /\ record_predictions =>
        \A n \in 1 .. Len(calls) :
            calls[n].op = "evaluate_generator" =>
                LET c == calls[n]
                    p == PredictCalls(calls, c.set)
                IN /\ Len(p) = c.steps
                   /\ \A k \in 1 .. c.steps :
                        c.generator.batches[p[k].drawn]
                            = c.generator.batches[c.drawn[k]]

\* where the generator's period divides the steps, the batches coincide
C10_SameBatchesWhenPeriodDividesSteps ==
    EpochEnded /\ record_predictions =>
        \A n \in 1 .. Len(calls) :
            (/\ calls[n].op = "evaluate_generator"
             /\ calls[n].steps % Len(calls[n].generator.batches) = 0) =>
                LET c == calls[n]
                    p == PredictCalls(calls, c.set)
                IN \A k \in 1 .. c.steps : p[k].drawn = c.drawn[k]

====
